---- MODULE Spec2Model ----
(***************************************************************************)
(* The persistence layer of the Dragon Ball scraper: the find-or-create    *)
(* helpers of dragonball/rpa_bot.py (upsert_raca, upsert_tecnica,          *)
(* upsert_personagem, link_tecnicas) running against the SQLite schema and *)
(* the safe_commit wrapper of dragonball/db.py.                            *)
(*                                                                         *)
(* Strings are sequences of one-character strings, so that str.strip() is  *)
(* computed and not assumed.  A table is the set of its rows.  The session *)
(* is opened with autoflush=False: objects passed to session.add() stay    *)
(* pending, invisible to queries, until the next commit flushes them.      *)
(* `session` holds the objects still pending when a helper has returned.   *)
(***************************************************************************)
EXTENDS Integers, Sequences, FiniteSets

VARIABLES racas, tecnicas, personagem, personagem_tecnicas, session, last, run

vars == <<racas, tecnicas, personagem, personagem_tecnicas, session, last, run>>

----------------------------------------------------------------------------
(* Values *)

\* Python's None where a string is expected (a name, a link).
None == <<"None">>

\* SQL NULL in an integer column; SQLite row ids start at 1.
NoId == 0

\* `raca` argument of upsert_personagem when upsert_raca returned None.
NoRaca == [id |-> NoId, nome |-> None]

\* Python truthiness of an Optional[str]: None and "" are falsy.
Truthy(s) == s /= None /\ s /= <<>>

Whitespace == {" "}

\* str.strip(): drop leading, then trailing, whitespace.
RECURSIVE LStrip(_)
LStrip(s) ==
    IF s /= <<>> /\ Head(s) \in Whitespace THEN LStrip(Tail(s)) ELSE s

RECURSIVE RStrip(_)
RStrip(s) ==
    IF s /= <<>> /\ s[Len(s)] \in Whitespace
    THEN RStrip(SubSeq(s, 1, Len(s) - 1))
    ELSE s

\* A strip that leaves trailing whitespace.
StripLeadingOnly(s) == LStrip(s)

Strip(s) == RStrip(LStrip(s))

----------------------------------------------------------------------------
(* The store: the four tables the helpers touch *)

Store == [racas |-> racas, tecnicas |-> tecnicas, personagem |-> personagem,
          personagem_tecnicas |-> personagem_tecnicas]

EmptyStore == [racas |-> {}, tecnicas |-> {}, personagem |-> {},
               personagem_tecnicas |-> {}]

Ids(rows) == {r.id : r \in rows}

\* INTEGER PRIMARY KEY: the next rowid is one more than the largest in use.
NextId(rows) ==
    IF rows = {} THEN 1
    ELSE (CHOOSE m \in Ids(rows) : \A k \in Ids(rows) : k <= m) + 1

\* Pending objects, as handed to session.add().
NewRaca(nome) == [t |-> "Raca", nome |-> nome]
NewTecnica(nome) == [t |-> "Tecnica", nome |-> nome]
NewPersonagem(nome, raca_id, link) ==
    [t |-> "Personagem", nome |-> nome, raca_id |-> raca_id, link |-> link]
NewPersonagemTecnica(pid, tid) ==
    [t |-> "PersonagemTecnica", personagem_id |-> pid, tecnica_id |-> tid]
\* A loaded Personagem whose attributes were assigned (a dirty object).
DirtyPersonagem(row) ==
    [t |-> "Update", id |-> row.id, nome |-> row.nome,
     raca_id |-> row.raca_id, link |-> row.link]

\* The nome column without unique=True.
NomeConstraintNotUnique(rows, nome) == nome /= None

\* Column(String, nullable=False, unique=True) of racas.nome, tecnicas.nome.
NomeConstraint(rows, nome) ==
    /\ nome /= None
    /\ \A r \in rows : r.nome /= nome

\* personagem: nome NOT NULL, raca_id NOT NULL REFERENCES racas(id) (foreign
\* keys are switched on by the connect hook), link UNIQUE (NULLs are distinct).
PersonagemConstraint(st, others, o) ==
    /\ o.nome /= None
    /\ o.raca_id /= NoId
    /\ o.raca_id \in Ids(st.racas)
    /\ o.link /= None => \A p \in others : p.link /= o.link

\* personagem_tecnicas: composite primary key, both columns foreign keys.
PersonagemTecnicaConstraint(st, o) ==
    /\ o.personagem_id \in Ids(st.personagem)
    /\ o.tecnica_id \in Ids(st.tecnicas)
    /\ \A l \in st.personagem_tecnicas :
          ~(l.personagem_id = o.personagem_id /\ l.tecnica_id = o.tecnica_id)

\* Whether the store accepts the statement the flush emits for object o.
Accepts(st, o) ==
    CASE o.t = "Raca" -> NomeConstraint(st.racas, o.nome)
      [] o.t = "Tecnica" -> NomeConstraint(st.tecnicas, o.nome)
      [] o.t = "Personagem" -> PersonagemConstraint(st, st.personagem, o)
      [] o.t = "Update" ->
            PersonagemConstraint(st, {p \in st.personagem : p.id /= o.id}, o)
      [] o.t = "PersonagemTecnica" -> PersonagemTecnicaConstraint(st, o)

\* The store after the statement for o.
Apply(st, o) ==
    CASE o.t = "Raca" ->
            [st EXCEPT !.racas = @ \cup {[id |-> NextId(@), nome |-> o.nome]}]
      [] o.t = "Tecnica" ->
            [st EXCEPT !.tecnicas = @ \cup {[id |-> NextId(@), nome |-> o.nome]}]
      [] o.t = "Personagem" ->
            [st EXCEPT !.personagem = @ \cup
                {[id |-> NextId(@), nome |-> o.nome,
                  raca_id |-> o.raca_id, link |-> o.link]}]
      [] o.t = "Update" ->
            [st EXCEPT !.personagem = {p \in @ : p.id /= o.id} \cup
                {[id |-> o.id, nome |-> o.nome,
                  raca_id |-> o.raca_id, link |-> o.link]}]
      [] o.t = "PersonagemTecnica" ->
            [st EXCEPT !.personagem_tecnicas = @ \cup
                {[personagem_id |-> o.personagem_id,
                  tecnica_id |-> o.tecnica_id]}]

\* DELETE of technique row t with foreign keys not enforced: the link rows
\* stay.
OnDeleteNoCascade(st, t) ==
    [st EXCEPT !.tecnicas = @ \ {t}]

\* DELETE of technique row t: personagem_tecnicas.tecnica_id is declared
\* ForeignKey("tecnicas.id", ondelete="CASCADE") and foreign keys are
\* enforced, so the link rows that reference t go with it.
OnDeleteCascade(st, t) ==
    [st EXCEPT !.tecnicas = @ \ {t},
               !.personagem_tecnicas = {l \in @ : l.tecnica_id /= t.id}]

\* session.commit(): flush every pending object in one transaction.  On a
\* rejected statement st is the store as far as the transaction got and
\* rest the objects not flushed.
RECURSIVE Flush(_, _)
Flush(st, objs) ==
    IF objs = <<>> THEN [ok |-> TRUE, st |-> st, rest |-> <<>>, err |-> "ok"]
    ELSE IF Accepts(st, Head(objs)) THEN Flush(Apply(st, Head(objs)), Tail(objs))
    ELSE [ok |-> FALSE, st |-> st, rest |-> objs, err |-> "IntegrityError"]

\* session.commit() under a storage fault: "ok" for none, else the
\* exception the fault raises once the statements have been emitted.
Commit(st, objs, fault) ==
    IF fault = "ok" \/ ~Flush(st, objs).ok THEN Flush(st, objs)
    ELSE [Flush(st, objs) EXCEPT !.ok = FALSE, !.err = fault]

\* safe_commit without session.rollback(): what the transaction did stays,
\* and so do the objects it did not flush.
RollbackMissing(st, f) ==
    IF f.ok THEN [st |-> f.st, pending |-> <<>>, err |-> "ok"]
    ELSE [st |-> f.st, pending |-> f.rest, err |-> f.err]

\* safe_commit: commit; on any error roll the transaction back and re-raise.
\* st is the store when the transaction began.  The rollback also expunges
\* the pending objects from the session.
Rollback(st, f) ==
    IF f.ok THEN [st |-> f.st, pending |-> <<>>, err |-> "ok"]
    ELSE [st |-> st, pending |-> <<>>, err |-> f.err]

safe_commit(st, objs) == Rollback(st, Flush(st, objs))

\* What another writer's own transaction leaves in the store.
OtherWriter(st, objs) == safe_commit(st, objs).st

----------------------------------------------------------------------------
(* Query results *)

\* Query.one_or_none(): the row, None, or MultipleResultsFound.
one_or_none(rows) ==
    IF Cardinality(rows) > 1
    THEN [ret |-> {}, err |-> "MultipleResultsFound"]
    ELSE [ret |-> rows, err |-> "ok"]

\* Query.one(): exactly one row, else NoResultFound / MultipleResultsFound.
one(rows) ==
    IF rows = {} THEN [ret |-> {}, err |-> "NoResultFound"]
    ELSE one_or_none(rows)

ByNome(rows, nome) == {r \in rows : r.nome = nome}

RacaId(raca) == IF raca /= NoRaca THEN raca.id ELSE NoId

----------------------------------------------------------------------------
(* rpa_bot.py: the upsert helpers, as functions of the store.              *)
(* Each takes the session as the store and the objects pending in it, and  *)
(* returns the store it leaves, the objects it leaves pending, the entity  *)
(* it returns (a set holding the row, empty for None or when it raises)    *)
(* and the exception it raises ("ok" for a normal return).  `other` is     *)
(* what another writer commits between the helper's lookup and its own     *)
(* commit (<<>> when it is alone).                                         *)

Result(st, pending, ret, err) ==
    [st |-> st, pending |-> pending, ret |-> ret, err |-> err]

\* upsert_raca without the try/except around safe_commit.
RequeryRacaNoRecovery(c, n) ==
    IF c.err /= "ok" THEN Result(c.st, c.pending, {}, c.err)
    ELSE LET q == one(ByNome(c.st.racas, n))
         IN  Result(c.st, c.pending, q.ret, q.err)

\* upsert_raca lines 29-34: c is what safe_commit did; whether it raised or
\* not, the row is read again with .one().
RequeryRaca(c, n) ==
    LET q == one(ByNome(c.st.racas, n))
    IN  Result(c.st, c.pending, q.ret, q.err)

upsert_raca(st, pending, nome, other) ==
    IF ~Truthy(nome) THEN Result(st, pending, {}, "ok")
    ELSE
      LET n == Strip(nome)
          r == one_or_none(ByNome(st.racas, n))
      IN  IF r.err /= "ok" THEN Result(st, pending, {}, r.err)
          ELSE IF r.ret /= {} THEN Result(st, pending, r.ret, "ok")
          ELSE RequeryRaca(safe_commit(OtherWriter(st, other),
                                       Append(pending, NewRaca(n))), n)

\* The outcome of upsert_tecnica: as above, with the objects still pending
\* in the session.
TecnicaResult(st, pending, ret, err) ==
    [st |-> st, pending |-> pending, ret |-> ret, err |-> err]

\* upsert_tecnica lines 42-46: c is what safe_commit did.  The commit
\* attempt has emptied the session: flushed on success, expunged by the
\* rollback on failure.
RequeryTecnica(c, n) ==
    LET q == one(ByNome(c.st.tecnicas, n))
    IN  TecnicaResult(c.st, c.pending, q.ret, q.err)

\* `pending` are the objects added to the session and not yet flushed when
\* the helper is called (link rows, when called from link_tecnicas).
upsert_tecnica(st, pending, nome, other) ==
    IF nome = None
    THEN TecnicaResult(st, pending, {}, "AttributeError")
    ELSE
      LET n == Strip(nome)
          t == one_or_none(ByNome(st.tecnicas, n))
      IN  IF t.err /= "ok" THEN TecnicaResult(st, pending, {}, t.err)
          ELSE IF t.ret /= {} THEN TecnicaResult(st, pending, t.ret, "ok")
          ELSE RequeryTecnica(safe_commit(OtherWriter(st, other),
                                          Append(pending, NewTecnica(n))), n)

\* The reconciliation with the link assigned whenever one is given.
ReconciledOverwriteLink(p, raca, link) ==
    [p EXCEPT !.raca_id = IF raca /= NoRaca /\ p.raca_id /= raca.id
                          THEN raca.id ELSE @,
              !.link = IF Truthy(link) THEN link ELSE @]

\* The row upsert_personagem reconciles p into (lines 57-61).
Reconciled(p, raca, link) ==
    [p EXCEPT !.raca_id = IF raca /= NoRaca /\ p.raca_id /= raca.id
                          THEN raca.id ELSE @,
              !.link = IF Truthy(link) /\ ~Truthy(p.link) THEN link ELSE @]

\* The lookups in the other order: (nome, raca_id) first, then link.
FindPersonagemNomeFirst(st, nome, raca, link) ==
    LET byNome == one_or_none({p \in st.personagem :
                                 p.nome = nome /\ p.raca_id = RacaId(raca)})
    IN  IF byNome.err /= "ok" \/ byNome.ret /= {} THEN byNome
        ELSE IF Truthy(link)
        THEN one_or_none({p \in st.personagem : p.link = link})
        ELSE [ret |-> {}, err |-> "ok"]

\* The two lookups of upsert_personagem (lines 49-54): by link, then by
\* (nome, raca_id); raca_id == None is rendered IS NULL.
FindPersonagem(st, nome, raca, link) ==
    LET byLink == IF Truthy(link)
                  THEN one_or_none({p \in st.personagem : p.link = link})
                  ELSE [ret |-> {}, err |-> "ok"]
    IN  IF byLink.err /= "ok" \/ byLink.ret /= {} THEN byLink
        ELSE one_or_none({p \in st.personagem :
                            p.nome = nome /\ p.raca_id = RacaId(raca)})

\* safe_commit(session); return p (lines 63-64, 68-69): c is what the commit
\* did, rows the entity returned when it did not raise.
Committed(c, rows) ==
    Result(c.st, c.pending, IF c.err = "ok" THEN rows ELSE {}, c.err)

\* Lines 56-64: p was found.
ReconcilePersonagem(st, pending, p, np, other) ==
    IF np = p THEN Result(st, pending, {p}, "ok")
    ELSE Committed(safe_commit(OtherWriter(st, other),
                               Append(pending, DirtyPersonagem(np))),
                   {np})

\* Lines 66-69: no row was found; st is the store at the commit.
CreatePersonagem(st, pending, o) ==
    Committed(safe_commit(st, Append(pending, o)),
              {[id |-> NextId(st.personagem), nome |-> o.nome,
                raca_id |-> o.raca_id, link |-> o.link]})

\* Lines 56-69, after the lookups returned f.
ResolvePersonagem(st, pending, f, nome, raca, link, other) ==
    IF f.err /= "ok" THEN Result(st, pending, {}, f.err)
    ELSE IF f.ret /= {}
    THEN ReconcilePersonagem(st, pending, CHOOSE x \in f.ret : TRUE,
                             Reconciled(CHOOSE x \in f.ret : TRUE, raca, link),
                             other)
    ELSE CreatePersonagem(OtherWriter(st, other), pending,
                          NewPersonagem(nome, RacaId(raca), link))

upsert_personagem(st, pending, nome, raca, link, other) ==
    ResolvePersonagem(st, pending, FindPersonagem(st, nome, raca, link),
                      nome, raca, link, other)

LoopState(st, pending, err) == [st |-> st, pending |-> pending, err |-> err]

\* Lines 76-83 without the `if not exists` test: the link is always added.
AddLinkNoExistsCheck(u, pid) ==
    IF u.err /= "ok" THEN LoopState(u.st, u.pending, u.err)
    ELSE LoopState(u.st,
                   Append(u.pending,
                          NewPersonagemTecnica(pid, (CHOOSE x \in u.ret : TRUE).id)),
                   "ok")

\* Lines 76-83: u is what upsert_tecnica returned.
AddLink(u, pid) ==
    IF u.err /= "ok" THEN LoopState(u.st, u.pending, u.err)
    ELSE
      LET tec == CHOOSE x \in u.ret : TRUE
          exists == one_or_none({l \in u.st.personagem_tecnicas :
                                   /\ l.personagem_id = pid
                                   /\ l.tecnica_id = tec.id})
      IN  IF exists.err /= "ok" THEN LoopState(u.st, u.pending, exists.err)
          ELSE IF exists.ret = {}
          THEN LoopState(u.st,
                         Append(u.pending, NewPersonagemTecnica(pid, tec.id)),
                         "ok")
          ELSE LoopState(u.st, u.pending, "ok")

\* The loop body without the `if not nm: continue` test.
LinkStepNoBlankSkip(m, pid, nm) ==
    AddLink(upsert_tecnica(m.st, m.pending, nm, <<>>), pid)

\* One turn of the loop of link_tecnicas (lines 72-83) on name nm.
\* m is the loop's state: the store, the session's pending links, the
\* exception raised so far.
LinkStep(m, pid, nm) ==
    IF ~Truthy(nm) THEN m
    ELSE AddLink(upsert_tecnica(m.st, m.pending, nm, <<>>), pid)

RECURSIVE LinkLoop(_, _, _)
LinkLoop(m, pid, nomes) ==
    IF nomes = <<>> \/ m.err /= "ok" THEN m
    ELSE LinkLoop(LinkStep(m, pid, Head(nomes)), pid, Tail(nomes))

\* Line 84, reached when the loop raised nothing: the batch commit.
LinkCommit(m) ==
    IF m.err /= "ok" THEN Result(m.st, m.pending, {}, m.err)
    ELSE Committed(safe_commit(m.st, m.pending), {})

link_tecnicas(st, pending, pid, nomes) ==
    LinkCommit(LinkLoop(LoopState(st, pending, "ok"), pid, nomes))

----------------------------------------------------------------------------
(* Bot.extrair_personagens: what the loop body does with one extracted     *)
(* record (rpa_bot.py lines 129-131).  An exception of a helper is not     *)
(* caught: it leaves the loop and ends the run.                            *)

Record(nome, raca, tecs, url) ==
    [nome |-> nome, raca |-> raca, tecnicas |-> tecs, url |-> url]

\* Line 131: b is what upsert_personagem returned.
PersistTecnicas(b, rec) ==
    IF b.err /= "ok" THEN b
    ELSE link_tecnicas(b.st, b.pending, (CHOOSE x \in b.ret : TRUE).id,
                       rec.tecnicas)

\* Line 130: a is what upsert_raca returned.
PersistPersonagem(a, rec) ==
    IF a.err /= "ok" THEN a
    ELSE PersistTecnicas(
            upsert_personagem(a.st, a.pending, rec.nome,
                              IF a.ret = {} THEN NoRaca
                              ELSE CHOOSE x \in a.ret : TRUE,
                              rec.url, <<>>),
            rec)

persist_record(st, pending, rec) ==
    PersistPersonagem(upsert_raca(st, pending, rec.raca, <<>>), rec)

----------------------------------------------------------------------------
(* Inputs *)

U1 == <<"u", "1">>
U2 == <<"u", "2">>

\* Longest collection handed to link_tecnicas.
MaxNomes == 3

\* Most character rows the store is let grow to.
MaxPersonagem == 2

\* Most records one run extracts.
MaxRecords == 2

\* Most objects added to the session before a direct safe_commit.
MaxPending == 2

\* Largest technique id in use when a technique may still be deleted.
MaxTecnicaId == 2

RECURSIVE SeqsUpTo(_, _)
SeqsUpTo(S, n) ==
    IF n = 0 THEN {<<>>}
    ELSE LET shorter == SeqsUpTo(S, n - 1)
         IN  shorter \cup {Append(q, x) : q \in shorter, x \in S}

\* Spec: every helper, one writer.
RacaInputs == {None, <<>>, <<"S">>}
TecnicaInputs == {None, <<>>, <<" ", "K", " ">>}
NomeInputs == {<<"G">>}
LinkInputs == {None, U1}
Colecoes == SeqsUpTo(TecnicaInputs, MaxNomes)

\* SpecPersonagem: the character resolver, with two races, names and links.
RacaInputsP == {None, <<"S">>, <<"N">>}
NomeInputsP == {<<"G">>, <<"V">>}
LinkInputsP == {None, U1, U2}

\* SpecWriters: every helper, with another writer committing in between.
RacaInputsW == {<<"S">>, <<" ", "S">>}
TecnicaInputsW == {<<"K">>, <<"K", " ">>}
ColecoesW == SeqsUpTo(TecnicaInputsW, MaxNomes - 1)
OtherInputs ==
    {<<>>} \cup {<<NewRaca(Strip(n))>> : n \in RacaInputsW}
           \cup {<<NewTecnica(Strip(n))>> : n \in TecnicaInputsW}
           \cup {<<NewPersonagem(n, r.id, l)>> :
                    n \in NomeInputs, r \in racas, l \in LinkInputs}

\* SpecNomes: the two name helpers on names that differ in case only, carry
\* whitespace on either side, or are made of whitespace.
RacaInputsN == {<<" ">>, <<" ", "S">>, <<"S", " ">>, <<"s">>}
TecnicaInputsN == {<<" ">>, <<"K", " ">>, <<" ", "K">>, <<"k">>}

\* SpecWhitespace: every helper, on names that may be made of whitespace.
RacaInputsB == {None, <<" ">>, <<"S">>}
TecnicaInputsB == {<<" ">>, <<" ", "K">>}
ColecoesB == SeqsUpTo(TecnicaInputsB, MaxNomes - 1)

\* SpecTecnicas: two techniques, two characters, and deletion of a technique.
TecnicaInputsT == {<<"K">>, <<"H">>}
ColecoesT == SeqsUpTo(TecnicaInputsT, MaxNomes - 1)

\* SpecCommit: safe_commit called on a session with objects added to it,
\* with and without a storage fault.
PendingInputs ==
    {NewRaca(<<"S">>), NewTecnica(<<"K">>)}
        \cup {NewPersonagem(<<"G">>, r.id, U1) : r \in racas}
        \cup {NewPersonagemTecnica(p.id, t.id) : p \in personagem, t \in tecnicas}
Faults == {"ok", "OperationalError", "Exception"}

\* SpecBot: the records a run extracts.
RecordInputs ==
    {Record(<<"G">>, r, <<<<"K">>>>, u) : r \in RacaInputsP, u \in {U1, U2}}
Extractions == SeqsUpTo(RecordInputs, MaxRecords)

----------------------------------------------------------------------------
(* State machine *)

Counts(st) ==
    <<Cardinality(st.racas), Cardinality(st.tecnicas),
      Cardinality(st.personagem), Cardinality(st.personagem_tecnicas)>>

\* `last` records the call that was made last: the helper, its arguments,
\* what another writer committed meanwhile, the ids of the rows it returned,
\* the exception it raised, by how much each table grew during the call
\* (`delta`), whether the call changed the store (`wrote`), and whether the
\* call before it was the same call (`again`).  `tick` alternates, so that a call that changes nothing is
\* still a step.
Outcome(op, args, other, r) ==
    [op |-> op, args |-> args, other |-> other, ret |-> Ids(r.ret),
     err |-> r.err,
     delta |-> [i \in 1..4 |-> Counts(r.st)[i] - Counts(Store)[i]],
     wrote |-> (r.st /= Store),
     again |-> (last.op = op /\ last.args = args),
     tick |-> 1 - last.tick]

SetStore(st) ==
    /\ racas' = st.racas
    /\ tecnicas' = st.tecnicas
    /\ personagem' = st.personagem
    /\ personagem_tecnicas' = st.personagem_tecnicas

NoRun == [pc |-> "idle", recs |-> <<>>, i |-> 1, pass |-> "first",
          before |-> Counts(EmptyStore)]

Init ==
    /\ racas = {}
    /\ tecnicas = {}
    /\ personagem = {}
    /\ personagem_tecnicas = {}
    /\ session = <<>>
    /\ last = [op |-> "none", args |-> <<>>, other |-> <<>>, ret |-> {},
               err |-> "ok", delta |-> <<0, 0, 0, 0>>, wrote |-> FALSE,
               again |-> FALSE, tick |-> 0]
    /\ run = NoRun

\* The helper returns or raises: r is its outcome.
Return(op, args, other, r) ==
    /\ Cardinality(r.st.personagem) <= MaxPersonagem
    /\ SetStore(r.st)
    /\ session' = r.pending
    /\ last' = Outcome(op, args, other, r)

UpsertRaca(nome, other) ==
    /\ Return("upsert_raca", <<nome>>, other,
              upsert_raca(Store, session, nome, other))
    /\ UNCHANGED run

UpsertTecnica(nome, other) ==
    /\ Return("upsert_tecnica", <<nome>>, other,
              upsert_tecnica(Store, session, nome, other))
    /\ UNCHANGED run

UpsertPersonagem(nome, raca, link, other) ==
    /\ Return("upsert_personagem", <<nome, RacaId(raca), link>>, other,
              upsert_personagem(Store, session, nome, raca, link, other))
    /\ UNCHANGED run

LinkTecnicas(p, nomes) ==
    /\ Return("link_tecnicas", <<p.id, nomes>>, <<>>,
              link_tecnicas(Store, session, p.id, nomes))
    /\ UNCHANGED run

\* session.add() of each of objs, then safe_commit(session).
SafeCommit(objs, fault) ==
    /\ Return("safe_commit", <<objs, fault>>, <<>>,
              Committed(Rollback(Store, Commit(Store, session \o objs, fault)),
                        {}))
    /\ UNCHANGED run

\* A technique row is deleted and the deletion committed.
DeleteTecnica(t) ==
    /\ \A x \in tecnicas : x.id <= MaxTecnicaId
    /\ Return("delete", <<t.id>>, <<>>,
              Result(OnDeleteCascade(Store, t), session, {}, "ok"))
    /\ UNCHANGED run

\* A run starts (python rpa_bot.py) over the pages as they are now.
BotStart(recs) ==
    /\ run.pc /= "running"
    /\ run' = [pc |-> "running", recs |-> recs, i |-> 1, pass |-> "first",
               before |-> Counts(Store)]
    /\ UNCHANGED <<racas, tecnicas, personagem, personagem_tecnicas,
                   session, last>>

\* The run is started again over the same, unchanged, pages.
BotRerun ==
    /\ run.pc = "done"
    /\ run.pass = "first"
    /\ run' = [run EXCEPT !.pc = "running", !.i = 1, !.pass = "second",
                          !.before = Counts(Store)]
    /\ UNCHANGED <<racas, tecnicas, personagem, personagem_tecnicas,
                   session, last>>

\* One turn of the loop over the extracted records.
BotRecord ==
    /\ run.pc = "running"
    /\ run.i <= Len(run.recs)
    /\ Return("persist_record", <<run.i>>, <<>>,
              persist_record(Store, session, run.recs[run.i]))
    /\ run' = IF last'.err = "ok" THEN [run EXCEPT !.i = @ + 1]
              ELSE [run EXCEPT !.pc = "failed"]

\* The loop is over: nav.close().
BotFinish ==
    /\ run.pc = "running"
    /\ run.i > Len(run.recs)
    /\ run' = [run EXCEPT !.pc = "done"]
    /\ UNCHANGED <<racas, tecnicas, personagem, personagem_tecnicas,
                   session, last>>

Next ==
    \/ \E nome \in RacaInputs : UpsertRaca(nome, <<>>)
    \/ \E nome \in TecnicaInputs : UpsertTecnica(nome, <<>>)
    \/ \E nome \in NomeInputs, raca \in racas \cup {NoRaca}, link \in LinkInputs :
          UpsertPersonagem(nome, raca, link, <<>>)
    \/ \E p \in personagem, nomes \in Colecoes : LinkTecnicas(p, nomes)

Spec == Init /\ [][Next]_vars

NextPersonagem ==
    \/ \E nome \in RacaInputsP : UpsertRaca(nome, <<>>)
    \/ \E nome \in NomeInputsP, raca \in racas \cup {NoRaca}, link \in LinkInputsP :
          UpsertPersonagem(nome, raca, link, <<>>)

SpecPersonagem == Init /\ [][NextPersonagem]_vars

NextWriters ==
    \/ \E nome \in RacaInputsW, other \in OtherInputs : UpsertRaca(nome, other)
    \/ \E nome \in TecnicaInputsW, other \in OtherInputs : UpsertTecnica(nome, other)
    \/ \E nome \in NomeInputs, raca \in racas \cup {NoRaca}, link \in LinkInputs,
          other \in OtherInputs :
          UpsertPersonagem(nome, raca, link, other)
    \/ \E p \in personagem, nomes \in ColecoesW : LinkTecnicas(p, nomes)

SpecWriters == Init /\ [][NextWriters]_vars

NextNomes ==
    \/ \E nome \in RacaInputsN : UpsertRaca(nome, <<>>)
    \/ \E nome \in TecnicaInputsN : UpsertTecnica(nome, <<>>)

SpecNomes == Init /\ [][NextNomes]_vars

NextWhitespace ==
    \/ \E nome \in RacaInputsB : UpsertRaca(nome, <<>>)
    \/ \E nome \in TecnicaInputsB : UpsertTecnica(nome, <<>>)
    \/ \E nome \in NomeInputs, raca \in racas :
          UpsertPersonagem(nome, raca, None, <<>>)
    \/ \E p \in personagem, nomes \in ColecoesB : LinkTecnicas(p, nomes)

SpecWhitespace == Init /\ [][NextWhitespace]_vars

NextTecnicas ==
    \/ UpsertRaca(<<"S">>, <<>>)
    \/ \E nome \in NomeInputsP, raca \in racas :
          UpsertPersonagem(nome, raca, None, <<>>)
    \/ \E p \in personagem, nomes \in ColecoesT : LinkTecnicas(p, nomes)
    \/ \E t \in tecnicas : DeleteTecnica(t)

SpecTecnicas == Init /\ [][NextTecnicas]_vars

NextCommit ==
    \/ \E objs \in SeqsUpTo(PendingInputs, MaxPending), fault \in Faults :
          SafeCommit(objs, fault)
    \/ \E nome \in NomeInputs, raca \in racas \cup {NoRaca}, link \in LinkInputs :
          UpsertPersonagem(nome, raca, link, <<>>)

SpecCommit == Init /\ [][NextCommit]_vars

NextBot ==
    \/ \E recs \in Extractions : BotStart(recs)
    \/ BotRerun
    \/ BotRecord
    \/ BotFinish

SpecBot == Init /\ [][NextBot]_vars

----------------------------------------------------------------------------
(* Claims *)

\* The step is a call of helper op.
Called(op) == last'.op = op /\ last'.tick /= last.tick

\* C1: calling upsert_personagem twice in a row with the identical (name,
\* persisted race, url) returns one row both times, the same row, and the
\* second call adds no character row.
C1_TwiceSameInputOneRow ==
    [][(/\ last.op = "upsert_personagem"
        /\ Called("upsert_personagem")
        /\ last'.args = last.args
        /\ last.args[2] \in Ids(racas))
       => (/\ last.err = "ok" /\ last'.err = "ok"
           /\ Cardinality(last.ret) = 1
           /\ last'.ret = last.ret
           /\ Cardinality(personagem') = Cardinality(personagem))]_vars

LinksOf(links, pid, tecs) ==
    {l \in links : l.personagem_id = pid /\ l.tecnica_id \in Ids(tecs)}

\* C2: one link_tecnicas call whose collection holds a technique name more
\* than once, for a character not yet linked to that technique, raises
\* nothing and leaves one technique row of that name, one link row to it,
\* and as many character rows as before.
C2_DuplicateNamesOneLink ==
    [][Called("link_tecnicas") =>
        LET pid == last'.args[1]
            nomes == last'.args[2]
        IN  \A i \in DOMAIN nomes, j \in DOMAIN nomes :
              (/\ i < j
               /\ Truthy(nomes[i])
               /\ nomes[j] = nomes[i]
               /\ LinksOf(personagem_tecnicas, pid,
                          ByNome(tecnicas, Strip(nomes[i]))) = {})
              => (/\ last'.err = "ok"
                  /\ Cardinality(ByNome(tecnicas', Strip(nomes[i]))) = 1
                  /\ Cardinality(LinksOf(personagem_tecnicas', pid,
                                   ByNome(tecnicas', Strip(nomes[i])))) = 1
                  /\ Cardinality(personagem') = Cardinality(personagem))]_vars

NoTwoShareNome(rows) == \A a \in rows, b \in rows : a.nome = b.nome => a = b

\* C3: whatever calls were made, no two race rows have the same name and no
\* two technique rows have the same name.
C3_NomesUnique == NoTwoShareNome(racas) /\ NoTwoShareNome(tecnicas)

\* C3 witness: upsert_raca was handed a name with surrounding whitespace
\* while another writer committed the trimmed name first, and returned that
\* row.
C3_Witness ==
    /\ last.op = "upsert_raca"
    /\ last.other /= <<>>
    /\ last.args[1] /= Strip(last.args[1])
    /\ \E r \in racas : r.nome = Strip(last.args[1]) /\ last.ret = {r.id}

\* C4: link_tecnicas called twice in succession with the same character and
\* the same single technique name raises nothing, leaves one link row for
\* the pair, and the second call adds no technique row and no link row.
C4_LinkTwiceOneLink ==
    [][(/\ last.op = "link_tecnicas"
        /\ Called("link_tecnicas")
        /\ last'.args = last.args
        /\ Len(last.args[2]) = 1
        /\ Truthy(last.args[2][1]))
       => LET pid == last.args[1]
              n == Strip(last.args[2][1])
          IN  /\ last.err = "ok" /\ last'.err = "ok"
              /\ tecnicas' = tecnicas
              /\ personagem_tecnicas' = personagem_tecnicas
              /\ Cardinality(ByNome(tecnicas', n)) = 1
              /\ Cardinality(LinksOf(personagem_tecnicas', pid,
                                     ByNome(tecnicas', n))) = 1]_vars

\* C4 witness: the second of two identical single-name calls has returned
\* and the link row is there.
C4_Witness ==
    /\ last.op = "link_tecnicas"
    /\ last.again
    /\ last.err = "ok"
    /\ Len(last.args[2]) = 1
    /\ Truthy(last.args[2][1])
    /\ LinksOf(personagem_tecnicas, last.args[1],
               ByNome(tecnicas, Strip(last.args[2][1]))) /= {}

\* C5: when a character row with link U exists, upsert_personagem called
\* with url U and any name returns that row and creates no character row.
C5_LinkWinsOverNome ==
    [][Called("upsert_personagem") =>
        \A p \in personagem :
          (Truthy(last'.args[3]) /\ p.link = last'.args[3])
          => (/\ last'.err = "ok"
              /\ last'.ret = {p.id}
              /\ Ids(personagem') = Ids(personagem))]_vars

\* C5 witness: the call returned a row that has the given link and another
\* name than the one given.
C5_Witness ==
    /\ last.op = "upsert_personagem"
    /\ last.err = "ok"
    /\ Truthy(last.args[3])
    /\ \E p \in personagem :
          /\ last.ret = {p.id}
          /\ p.link = last.args[3]
          /\ p.nome /= last.args[1]

\* C6: for a stored character without a link, upsert_personagem with its
\* (name, race) and a link no row holds yet sets the row's link; for a stored
\* character with a link, upsert_personagem with its (name, race) and another
\* link leaves the row's link as it is and adds no character row.
C6_BackfillNotOverwrite ==
    [][Called("upsert_personagem") =>
        LET nome == last'.args[1]
            raca_id == last'.args[2]
            link == last'.args[3]
        IN  \A p \in personagem :
              (p.nome = nome /\ p.raca_id = raca_id /\ Truthy(link))
              => /\ (/\ ~Truthy(p.link)
                     /\ \A z \in personagem : z.link /= link)
                    => \E q \in personagem' : q.id = p.id /\ q.link = link
                 /\ (Truthy(p.link) /\ p.link /= link)
                    => /\ \E q \in personagem' : q.id = p.id /\ q.link = p.link
                       /\ Ids(personagem') = Ids(personagem)]_vars

PresentRaceDistinctUrls(recs) ==
    /\ \A i \in DOMAIN recs : Truthy(recs[i].raca)
    /\ \A i \in DOMAIN recs, j \in DOMAIN recs :
          recs[i].url = recs[j].url => i = j

\* C7: when a sequence of records, each with a race and its own URL, has
\* been processed and is processed a second time, the second pass ends
\* without error and leaves every table with as many rows as it found.
C7_SecondPassAddsNothing ==
    (/\ run.pass = "second"
     /\ run.pc \in {"done", "failed"}
     /\ PresentRaceDistinctUrls(run.recs))
    => (run.pc = "done" /\ Counts(Store) = run.before)

\* C8: a run does not end on a record whose race is absent; the record is
\* stored without a race and the records after it are processed.
C8_AbsentRaceDoesNotAbort ==
    ~(/\ run.pc = "failed"
      /\ ~Truthy(run.recs[run.i].raca))

\* C9: in a link_tecnicas call the empty and absent entries raise nothing
\* and create nothing - the call does what it does on the collection without
\* them - and the other entries are trimmed before lookup: every technique
\* row created carries a trimmed entry, and a collection with one non-blank
\* entry leaves one technique of that trimmed name and one link to it.
NonBlank(nomes) == SelectSeq(nomes, Truthy)

C9_BlankTolerance ==
    [][Called("link_tecnicas") =>
        LET pid == last'.args[1]
            nomes == last'.args[2]
            nb == NonBlank(nomes)
            r == link_tecnicas(Store, session, pid, nb)
        IN  /\ Store' = r.st
            /\ last'.err = r.err
            /\ nb = <<>> => (last'.err = "ok" /\ Store' = Store)
            /\ \A t \in tecnicas' \ tecnicas :
                  \E i \in DOMAIN nb : t.nome = Strip(nb[i])
            /\ Len(nb) = 1 =>
                  /\ last'.err = "ok"
                  /\ Cardinality(ByNome(tecnicas', Strip(nb[1]))) = 1
                  /\ Cardinality(LinksOf(personagem_tecnicas', pid,
                                   ByNome(tecnicas', Strip(nb[1])))) = 1
                  /\ Cardinality(tecnicas' \ tecnicas) <= 1
                  /\ Cardinality(personagem_tecnicas' \ personagem_tecnicas) <= 1]_vars

\* C9 witness: a collection holding "", None and " K " was linked: there is
\* one technique, named K, and one link.
C9_Witness ==
    /\ last.op = "link_tecnicas"
    /\ last.err = "ok"
    /\ last.args[2] = << <<>>, None, <<" ", "K", " ">> >>
    /\ {t.nome : t \in tecnicas} = {<<"K">>}
    /\ Cardinality(personagem_tecnicas) = 1

\* C10: when another writer commits a character row with the same link
\* between upsert_personagem's lookup and its commit, upsert_personagem does
\* not raise: it returns the row the other writer created.
C10_PersonagemCollisionRecovered ==
    (/\ last.op = "upsert_personagem"
     /\ last.args[2] /= NoId
     /\ Truthy(last.args[3])
     /\ last.other /= <<>>
     /\ last.other[1].t = "Personagem"
     /\ last.other[1].link = last.args[3])
    => (/\ last.err = "ok"
        /\ \E p \in personagem : p.link = last.args[3] /\ last.ret = {p.id})

\* The store after a writer's insert of a row named n into a name table
\* that has no such row.
WithRow(rows, n) == rows \cup {[id |-> NextId(rows), nome |-> n]}

\* C11: when another writer inserts a race (a technique) with the same
\* trimmed name between the lookup of upsert_raca (upsert_tecnica) and its
\* commit, the call raises nothing and returns the other writer's row, and
\* the table holds exactly one row of that name: the other writer's.
C11_CollisionRecovered ==
    [][/\ (/\ Called("upsert_raca")
            /\ last'.other = <<NewRaca(Strip(last'.args[1]))>>
            /\ \A r \in racas : r.nome /= Strip(last'.args[1]))
           => (/\ last'.err = "ok"
               /\ last'.ret = {NextId(racas)}
               /\ racas' = WithRow(racas, Strip(last'.args[1])))
       /\ (/\ Called("upsert_tecnica")
            /\ last'.other = <<NewTecnica(Strip(last'.args[1]))>>
            /\ \A t \in tecnicas : t.nome /= Strip(last'.args[1]))
           => (/\ last'.err = "ok"
               /\ last'.ret = {NextId(tecnicas)}
               /\ tecnicas' = WithRow(tecnicas, Strip(last'.args[1])))]_vars

\* C11 witness: upsert_tecnica was called while another writer inserted the
\* trimmed name, the row came into being during the call, and the call
\* returned it without error.
C11_Witness ==
    /\ last.op = "upsert_tecnica"
    /\ last.other = <<NewTecnica(Strip(last.args[1]))>>
    /\ last.delta[2] = 1
    /\ last.err = "ok"
    /\ \E t \in tecnicas : t.nome = Strip(last.args[1]) /\ last.ret = {t.id}
    /\ Cardinality(ByNome(tecnicas, Strip(last.args[1]))) = 1

\* C12: upsert_tecnica called with an absent or empty name raises and
\* creates no technique row; upsert_raca called with an absent or empty name
\* returns None without raising and creates no race row.
C12_EmptyTecnicaIsError ==
    [][/\ (Called("upsert_tecnica") /\ ~Truthy(last'.args[1]))
           => (last'.err /= "ok" /\ tecnicas' = tecnicas)
       /\ (Called("upsert_raca") /\ ~Truthy(last'.args[1]))
           => (last'.err = "ok" /\ last'.ret = {} /\ racas' = racas)]_vars

\* t is n with its leading and trailing whitespace removed.
IsTrimOf(t, n) ==
    \E i \in 1..(Len(n) + 1), j \in 0..Len(n) :
        /\ t = SubSeq(n, i, j)
        /\ \A k \in 1..Len(n) : (k < i \/ k > j) => n[k] \in Whitespace
        /\ t /= <<>> => (t[1] \notin Whitespace /\ t[Len(t)] \notin Whitespace)

\* The find-or-create contract of one name table, for a call with name n
\* that went from rows to rows2 and returned the rows with ids ret.
FindOrCreate(rows, rows2, n, ret) ==
    /\ \E r \in rows2 : ret = {r.id} /\ IsTrimOf(r.nome, n)
    /\ \A e \in rows : IsTrimOf(e.nome, n) => (rows2 = rows /\ ret = {e.id})
    /\ rows \subseteq rows2
    /\ Cardinality(rows2 \ rows) <= 1

\* C13: for every non-empty name n, upsert_raca(n) and upsert_tecnica(n)
\* raise nothing and return the row whose stored name is n without its
\* leading and trailing whitespace, compared exactly; the row is created
\* only if no such row exists; the call adds at most one row, to its own
\* table; and the returned row is in the store, with nothing left pending
\* in the session, when the call returns.
C13_FindOrCreate ==
    [][/\ (Called("upsert_raca") /\ Truthy(last'.args[1]))
           => (/\ last'.err = "ok"
               /\ FindOrCreate(racas, racas', last'.args[1], last'.ret)
               /\ UNCHANGED <<tecnicas, personagem, personagem_tecnicas>>
               /\ session' = <<>>)
       /\ (Called("upsert_tecnica") /\ Truthy(last'.args[1]))
           => (/\ last'.err = "ok"
               /\ FindOrCreate(tecnicas, tecnicas', last'.args[1], last'.ret)
               /\ UNCHANGED <<racas, personagem, personagem_tecnicas>>
               /\ session' = <<>>)]_vars

\* C13 witness: upsert_raca(" S") created and returned the row S although a
\* row s was there.
C13_Witness ==
    /\ last.op = "upsert_raca"
    /\ last.args[1] = <<" ", "S">>
    /\ last.delta[1] = 1
    /\ last.err = "ok"
    /\ \E r \in racas : r.nome = <<"S">> /\ last.ret = {r.id}
    /\ \E r \in racas : r.nome = <<"s">> /\ last.ret /= {r.id}

\* C14: deleting a technique row removes that row and every link row that
\* references it, and nothing else: the races, the characters, the other
\* techniques and the links to other techniques are as before, and no link
\* row references a technique that is not there.
C14_Cascade ==
    [][Called("delete") =>
        LET tid == last'.args[1]
        IN  /\ tecnicas' = {t \in tecnicas : t.id /= tid}
            /\ personagem_tecnicas' =
                  {l \in personagem_tecnicas : l.tecnica_id /= tid}
            /\ UNCHANGED <<racas, personagem>>
            /\ \A l \in personagem_tecnicas' : l.tecnica_id \in Ids(tecnicas')]_vars

\* C14 witness: a technique was deleted, link rows went with it, and a link
\* of a character to another technique is still there.
C14_Witness ==
    /\ last.op = "delete"
    /\ last.delta[2] = -1
    /\ last.delta[4] < 0
    /\ personagem_tecnicas /= {}
    /\ Cardinality(personagem) = 2

\* The loop of link_tecnicas after the first k names.
AfterNames(pid, nomes, k) ==
    LinkLoop(LoopState(Store, session, "ok"), pid, SubSeq(nomes, 1, k))

\* C15: link_tecnicas commits link rows once, after the last name: as long
\* as a name of the collection is still to be processed - after each of the
\* names before the last, and when the technique of a name has been resolved
\* and its link not yet looked up - the durable link rows are those from
\* before the call.
C15_BatchCommit ==
    [][Called("link_tecnicas") =>
        LET pid == last'.args[1]
            nomes == last'.args[2]
        IN  \A k \in 1..Len(nomes) :
              /\ AfterNames(pid, nomes, k - 1).st.personagem_tecnicas
                    = personagem_tecnicas
              /\ (AfterNames(pid, nomes, k - 1).err = "ok" /\ Truthy(nomes[k]))
                 => upsert_tecnica(AfterNames(pid, nomes, k - 1).st,
                                   AfterNames(pid, nomes, k - 1).pending,
                                   nomes[k], <<>>).st.personagem_tecnicas
                      = personagem_tecnicas]_vars

\* The rows the lookups of a call with (nome, raca_id, link) match: those
\* with the link when a link is given and a row has it, else those with the
\* (nome, raca_id).
Matched(nome, raca_id, link) ==
    IF Truthy(link) /\ \E p \in personagem : p.link = link
    THEN {p \in personagem : p.link = link}
    ELSE {p \in personagem : p.nome = nome /\ p.raca_id = raca_id}

\* C16: when upsert_personagem finds an existing row, it returns it without
\* raising; the stored race becomes the given race if a race is given and
\* differs; the stored link becomes the given link only if it was absent
\* and a link is given; nothing else in the store changes, and if neither
\* applies the store is left as it was.
C16_ReconcileOnMatch ==
    [][Called("upsert_personagem") =>
        LET nome == last'.args[1]
            raca_id == last'.args[2]
            link == last'.args[3]
        IN  \A p \in Matched(nome, raca_id, link) :
              Matched(nome, raca_id, link) = {p} =>
                LET q == [id |-> p.id, nome |-> p.nome,
                          raca_id |-> IF raca_id /= NoId /\ p.raca_id /= raca_id
                                      THEN raca_id ELSE p.raca_id,
                          link |-> IF ~Truthy(p.link) /\ Truthy(link)
                                   THEN link ELSE p.link]
                IN  /\ last'.err = "ok"
                    /\ last'.ret = {p.id}
                    /\ personagem' = (personagem \ {p}) \cup {q}
                    /\ UNCHANGED <<racas, tecnicas, personagem_tecnicas>>
                    /\ q = p => (Store' = Store /\ ~last'.wrote)]_vars

\* C16 witness: a call found a row by its link, under another name, and
\* changed the store without adding a row: it reassigned the row's race.
C16_Witness ==
    /\ last.op = "upsert_personagem"
    /\ last.err = "ok"
    /\ last.wrote
    /\ last.delta = <<0, 0, 0, 0>>
    /\ \E p \in personagem :
          /\ last.ret = {p.id}
          /\ p.nome /= last.args[1]
          /\ p.link = last.args[3]
          /\ p.raca_id = last.args[2]

\* Two of the objects are rows of one name for one name table: the second
\* INSERT violates UNIQUE.
TwoOfOneNome(objs) ==
    \E i \in DOMAIN objs, j \in DOMAIN objs :
        i < j /\ objs[i] = objs[j] /\ objs[i].t \in {"Raca", "Tecnica"}

\* C17: whenever a commit attempted through safe_commit fails - on an
\* integrity violation, an operational fault or any other error - the
\* error is raised to the caller, the store is what it was before the
\* attempt, and nothing is left pending in the session.  The same holds of
\* the commit upsert_personagem attempts.
C17_RollbackBeforeReraise ==
    [][/\ Called("safe_commit") =>
            /\ last'.args[2] /= "ok" => last'.err /= "ok"
            /\ TwoOfOneNome(last'.args[1]) => last'.err = "IntegrityError"
            /\ last'.err /= "ok" => (Store' = Store /\ session' = <<>>)
       /\ (Called("upsert_personagem") /\ last'.err = "IntegrityError")
            => (Store' = Store /\ session' = <<>>)]_vars

\* C17 witness: safe_commit was called with two new races of one name, of
\* which the store would have taken the first: it raised IntegrityError and
\* the store has no race of that name.
C17_Witness ==
    /\ last.op = "safe_commit"
    /\ last.args[1] = <<NewRaca(<<"S">>), NewRaca(<<"S">>)>>
    /\ last.err = "IntegrityError"
    /\ ~last.wrote
    /\ racas = {}
    /\ session = <<>>

\* C18: whatever upsert_personagem calls were made, no two character rows
\* have the same (name, race), and no call failed with a multiple-results
\* error.
C18_NomeRacaUnique ==
    /\ \A a \in personagem, b \in personagem :
          (a.nome = b.nome /\ a.raca_id = b.raca_id) => a = b
    /\ last.err /= "MultipleResultsFound"

\* C19: whatever upsert_raca, upsert_tecnica and link_tecnicas calls were
\* made, no race row and no technique row has the empty name.
C19_NoEmptyNome ==
    \A r \in racas \cup tecnicas : r.nome /= <<>>

====
